---- MODULE Spec2Model ----
(***************************************************************************)
(* TSM file writer of tskv (src/tskv/src/tsm/writer.rs): TsmBlockWriter,   *)
(* TsmIndexBuilder and FooterBuilder driven over one shared FileCursor.    *)
(* The file is a sequence of bytes (0..255); every to_be_bytes() of the    *)
(* source is computed byte by byte, every `as` cast keeps its width.       *)
(***************************************************************************)
EXTENDS Integers, Sequences, FiniteSets, TLC

\* ---------------------------------------------------------------- bounds
MAX_BLOCK_VALUES == 2      \* super::MAX_BLOCK_VALUES, scaled down
MaxLen == 4                \* longest Data Block handed to the writer
MaxFields == 2             \* number of field ids a file build may write

\* ------------------------------------------------------ program constants
HEADER_LEN == 5
TSM_MAGIC == 20211219      \* 0x1346613
VERSION == 1
U16_MOD == 65536           \* range of `cnt: u16`
INDEX_TYP == 1             \* `let typ: u8 = 1;`

\* ------------------------------------------------------------ conversions
\* v.to_be_bytes() for an integer type of w bytes, 0 <= v < 2^31.  Bytes
\* above the fourth are zero for such v; the others are v / 256^k mod 256.
BeByte(v, w, k) ==
    IF w - k >= 4 THEN 0 ELSE (v \div (256 ^ (w - k))) % 256

ToBeBytes(v, w) == [k \in 1..w |-> BeByte(v, w, k)]

\* The integer a big-endian byte string denotes (what a reader recovers).
RECURSIVE FromBeBytes(_)
FromBeBytes(s) ==
    IF s = <<>> THEN 0
    ELSE 256 * FromBeBytes(SubSeq(s, 1, Len(s) - 1)) + s[Len(s)]

\* crc32fast::hash(buf): a checksum of the buffer, below 2^31 here
RECURSIVE Crc32(_)
Crc32(buf) ==
    IF buf = <<>> THEN 1
    ELSE (31 * Crc32(SubSeq(buf, 1, Len(buf) - 1)) + buf[Len(buf)] + 7) % 65521

\* ------------------------------------------------------------- FileCursor
\* FileCursor::write(buf) at position p: the bytes replace or extend the
\* file from p on; the cursor then stands at p + len(buf).
CursorWrite(f, p, buf) ==
    LET before == IF p <= Len(f) THEN SubSeq(f, 1, p)
                  ELSE f \o [k \in 1..(p - Len(f)) |-> 0]
    IN  before \o buf \o SubSeq(f, p + Len(buf) + 1, Len(f))

\* -------------------------------------------------------------- DataBlock
\* A Data Block of one field: value-type tag and parallel arrays with
\* synthetic ascending timestamps.
DataBlock(f, ft, len) ==
    [filed_type |-> ft,
     ts  |-> [k \in 1..len |-> 10 * f + k - 1],
     val |-> [k \in 1..len |-> 100 + 10 * f + k - 1]]

NoBlock == [filed_type |-> 0, ts |-> <<>>, val |-> <<>>]

block_len(b) == Len(b.ts)

ValidRange(b, s, e) == 0 <= s /\ s <= e /\ e <= block_len(b)

\* DataBlock::time_range(start, end) over the half-open range; u is the
\* value reported for an empty range, which the contract leaves open.
time_range(b, s, e, u) ==
    IF s < e THEN <<b.ts[s + 1], b.ts[e]>> ELSE <<u, u>>

EmptyRangeTs == {0, 1}

\* DataBlock::encode(start, end): the two columnar buffers of the range,
\* one byte per timestamp and one byte per value.
encode(b, s, e) == <<SubSeq(b.ts, s + 1, e), SubSeq(b.val, s + 1, e)>>

\* ------------------------------------------------- TsmBlockWriter pieces
\* variant: the count taken as len / MAX_BLOCK_VALUES + 1
NumBlocks_OffByOne(len) == (len \div MAX_BLOCK_VALUES) + 1

\* let n = (len - 1) / MAX_BLOCK_VALUES + 1;
NumBlocks(len) == ((len - 1) \div MAX_BLOCK_VALUES) + 1

\* let end = len % MAX_BLOCK_VALUES + i * MAX_BLOCK_VALUES;
BlockEnd(len, i) == (len % MAX_BLOCK_VALUES) + i * MAX_BLOCK_VALUES

\* variant: the header test also passes right behind an empty sub-block
NeedHeader_CountsChecksums(p) == p <= HEADER_LEN + 8

\* variant: the header test passes on every sub-block
NeedHeader_Always(p) == TRUE

\* if self.writer.pos() <= HEADER_LEN
NeedHeader(p) == p <= HEADER_LEN

\* TSM_MAGIC.to_be_bytes() ++ VERSION.to_be_bytes()
HeaderBytes == ToBeBytes(TSM_MAGIC, 4) \o ToBeBytes(VERSION, 1)

\* variant: the offset taken behind the timestamp checksum
BlockOffset_AfterCrc(p) == p + 4

\* let offset = self.writer.pos();
BlockOffset(p) == p

\* variant: the size counts the two checksums as well
BlockSize_WithChecksums(ts_buf, data_buf) == Len(ts_buf) + Len(data_buf) + 8

\* let size = ts_buf.len() + data_buf.len();
BlockSize(ts_buf, data_buf) == Len(ts_buf) + Len(data_buf)

FileBlock(min_ts, max_ts, offset, filed_type, size) ==
    [min_ts |-> min_ts, max_ts |-> max_ts, offset |-> offset,
     filed_type |-> filed_type, size |-> size, reader_idx |-> 0]

\* ------------------------------------------------ TsmIndexBuilder pieces
\* let typ: u8 = 1;   (block = blks.first().unwrap() is not consulted)
IndexTyp(blks) == INDEX_TYP

\* let cnt: u16 = blks.len() as u16;
IndexCnt(blks) == Len(blks) % U16_MOD

\* byte r (1..32) of the four appends of one `for blk in blks` iteration:
\* min_ts, max_ts, offset, size, 8 big-endian bytes each
IndexSubByte(blk, r) ==
    IF r <= 8 THEN BeByte(blk.min_ts, 8, r)
    ELSE IF r <= 16 THEN BeByte(blk.max_ts, 8, r - 8)
    ELSE IF r <= 24 THEN BeByte(blk.offset, 8, r - 16)
    ELSE BeByte(blk.size, 8, r - 24)

\* buf of one (fid, blks) iteration: fid, typ, cnt and then 32 bytes for
\* every File Block of blks
IndexRecord(f, blks) ==
    (ToBeBytes(f, 8) \o ToBeBytes(IndexTyp(blks), 1) \o ToBeBytes(IndexCnt(blks), 2))
        \o [k \in 1..(32 * Len(blks)) |->
                IndexSubByte(blks[((k - 1) \div 32) + 1], ((k - 1) % 32) + 1)]

\* --------------------------------------------------- FooterBuilder piece
\* variant: a 4-byte footer, as the layout comment of the file has it
FooterBytes_FourBytes(offset) == ToBeBytes(offset, 4)

\* offset.to_be_bytes().to_vec()
FooterBytes(offset) == ToBeBytes(offset, 8)

\* ------------------------------------------------------------------ state
VARIABLES
    file,       \* the bytes of the storage object behind the cursor
    pos,        \* FileCursor position
    start_pos,  \* where the cursor stood when the build began
    pc,         \* position of the single writer in the build
    fid,        \* field id of the Data Block being written
    block,      \* the Data Block owned by TsmBlockWriter::build
    bw,         \* locals of TsmBlockWriter::build
    indexs,     \* field id -> Vec<FileBlock>, collected by the caller
    order,      \* field ids in the order their Data Blocks were written
    ix,         \* locals of TsmIndexBuilder::build
    ret,        \* value returned by the last finished call
    wlog,       \* the seeks and writes the cursor has performed so far
    probe       \* one index record built on a group given directly

vars == <<file, pos, start_pos, pc, fid, block, bw, indexs, order, ix, ret,
          wlog, probe>>

Fids == 1..MaxFields
\* value-type tags of the Data Blocks: the one the index writes, and another
FieldTypes == {INDEX_TYP, INDEX_TYP + 1}

\* where the cursor may stand when the build begins: a fresh file, inside
\* the header, right behind it, and beyond it
StartPositions == {0, HEADER_LEN - 2, HEADER_LEN, HEADER_LEN + 1}

EmptyMap == [f \in {} |-> <<>>]

BwInit == [filed_type |-> 0, len |-> 0, n |-> 0, i |-> 0, last_index |-> 0,
           start |-> 0, end |-> 0, min_ts |-> 0, max_ts |-> 0,
           ts_buf |-> <<>>, data_buf |-> <<>>, offset |-> 0,
           res |-> <<>>, ranges |-> <<>>]

IxInit == [res |-> 0, todo |-> {}]

NoRet == [kind |-> "None", blocks |-> <<>>, offset |-> 0]
OkBlocks(r) == [kind |-> "Blocks", blocks |-> r, offset |-> 0]
OkOffset(o) == [kind |-> "Offset", blocks |-> <<>>, offset |-> o]
OkUnit == [kind |-> "Unit", blocks |-> <<>>, offset |-> 0]
WriteTsmErr == [kind |-> "WriteTsmErr", blocks |-> <<>>, offset |-> 0]
EncodeErr == [kind |-> "EncodeErr", blocks |-> <<>>, offset |-> 0]

\* one cursor operation: fld is the field id concerned, i the sub-block
LogEntry(op, what, at, to, f, i) ==
    [op |-> op, what |-> what, at |-> at, to |-> to, fld |-> f, i |-> i]

NoProbe == [fid |-> 0, filed_type |-> 0, len |-> 0, head |-> <<>>,
            buf_len |-> 0, done |-> FALSE]

\* n bytes that were in the file before the build
Filler(n) == [k \in 1..n |-> 238]

Init ==
    /\ start_pos \in StartPositions
    /\ pos = start_pos
    /\ file = Filler(start_pos)
    /\ pc = "idle"
    /\ fid = 0
    /\ block = NoBlock
    /\ bw = BwInit
    /\ indexs = EmptyMap
    /\ order = <<>>
    /\ ix = IxInit
    /\ ret = NoRet
    /\ wlog = <<>>
    /\ probe = NoProbe

\* ------------------------------------------------- TsmBlockWriter::build
\* The caller hands one Data Block of a field not written yet; lines
\* 112-117 set up the locals.
BwCall ==
    /\ pc = "idle"
    /\ Len(order) < MaxFields
    /\ \E f \in Fids, ft \in FieldTypes, len \in 1..MaxLen :
        /\ f = Len(order) + 1
        /\ fid' = f
        /\ block' = DataBlock(f, ft, len)
        /\ bw' = [BwInit EXCEPT !.filed_type = ft, !.len = len,
                                !.n = NumBlocks(len)]
    /\ ret' = NoRet
    /\ pc' = "bw_loop"
    /\ UNCHANGED <<probe, file, pos, start_pos, indexs, order, ix, wlog>>

\* while i < n: lines 119-124, up to the header test
BwIter ==
    /\ pc = "bw_loop"
    /\ bw.i < bw.n
    /\ LET start == bw.last_index
           end == BlockEnd(bw.len, bw.i)
       IN  \E u \in EmptyRangeTs :
            IF ValidRange(block, start, end)
            THEN LET tr == time_range(block, start, end, u)
                     bufs == encode(block, start, end)
                 IN  /\ bw' = [bw EXCEPT !.start = start, !.end = end,
                                  !.last_index = end,
                                  !.min_ts = tr[1], !.max_ts = tr[2],
                                  !.ts_buf = bufs[1], !.data_buf = bufs[2],
                                  !.ranges = Append(@, <<start, end>>)]
                     /\ pc' = IF NeedHeader(pos) THEN "bw_seek" ELSE "bw_crc_ts"
                     /\ ret' = ret
            ELSE /\ bw' = [bw EXCEPT !.start = start, !.end = end,
                                     !.last_index = end]
                 /\ pc' = "failed"
                 /\ ret' = EncodeErr
    /\ UNCHANGED <<probe, file, pos, start_pos, fid, block, indexs, order, ix, wlog>>

\* self.writer.seek(SeekFrom::Start(0))
BwSeek ==
    /\ pc = "bw_seek"
    /\ pos' = 0
    /\ wlog' = Append(wlog, LogEntry("seek", "header", pos, 0, fid, bw.i))
    /\ pc' = "bw_header"
    /\ UNCHANGED <<probe, file, start_pos, fid, block, bw, indexs, order, ix, ret>>

\* self.writer.write(&buf) of the 5 header bytes
BwHeader ==
    /\ pc = "bw_header"
    /\ file' = CursorWrite(file, pos, HeaderBytes)
    /\ pos' = pos + Len(HeaderBytes)
    /\ wlog' = Append(wlog, LogEntry("write", "header", pos, pos', fid, bw.i))
    /\ pc' = "bw_crc_ts"
    /\ UNCHANGED <<probe, start_pos, fid, block, bw, indexs, order, ix, ret>>

\* let offset = self.writer.pos(); then the CRC32 of ts_buf
BwCrcTs ==
    /\ pc = "bw_crc_ts"
    /\ bw' = [bw EXCEPT !.offset = BlockOffset(pos)]
    /\ LET crc == ToBeBytes(Crc32(bw.ts_buf), 4)
       IN  /\ file' = CursorWrite(file, pos, crc)
           /\ pos' = pos + Len(crc)
    /\ wlog' = Append(wlog, LogEntry("write", "crc_ts", pos, pos', fid, bw.i))
    /\ pc' = "bw_ts"
    /\ UNCHANGED <<probe, start_pos, fid, block, indexs, order, ix, ret>>

\* self.writer.write(&ts_buf)
BwTs ==
    /\ pc = "bw_ts"
    /\ file' = CursorWrite(file, pos, bw.ts_buf)
    /\ pos' = pos + Len(bw.ts_buf)
    /\ wlog' = Append(wlog, LogEntry("write", "ts", pos, pos', fid, bw.i))
    /\ pc' = "bw_crc_data"
    /\ UNCHANGED <<probe, start_pos, fid, block, bw, indexs, order, ix, ret>>

\* the CRC32 of data_buf
BwCrcData ==
    /\ pc = "bw_crc_data"
    /\ LET crc == ToBeBytes(Crc32(bw.data_buf), 4)
       IN  /\ file' = CursorWrite(file, pos, crc)
           /\ pos' = pos + Len(crc)
    /\ wlog' = Append(wlog, LogEntry("write", "crc_data", pos, pos', fid, bw.i))
    /\ pc' = "bw_data"
    /\ UNCHANGED <<probe, start_pos, fid, block, bw, indexs, order, ix, ret>>

\* self.writer.write(&data_buf); res.push(FileBlock {..}); i += 1
BwData ==
    /\ pc = "bw_data"
    /\ file' = CursorWrite(file, pos, bw.data_buf)
    /\ pos' = pos + Len(bw.data_buf)
    /\ wlog' = Append(wlog, LogEntry("write", "data", pos, pos', fid, bw.i))
    /\ bw' = [bw EXCEPT
                !.res = Append(@, FileBlock(bw.min_ts, bw.max_ts, bw.offset,
                                            bw.filed_type,
                                            BlockSize(bw.ts_buf, bw.data_buf))),
                !.i = @ + 1]
    /\ pc' = "bw_loop"
    /\ UNCHANGED <<probe, start_pos, fid, block, indexs, order, ix, ret>>

BwIoStages == {"bw_seek", "bw_header", "bw_crc_ts", "bw_ts", "bw_crc_data", "bw_data"}

\* variant: a failure resets the cursor to the start of the sub-block
BwIoFail_Rollback ==
    /\ pc \in BwIoStages
    /\ ret' = WriteTsmErr
    /\ pc' = "failed"
    /\ pos' = (IF pc \in {"bw_ts", "bw_crc_data", "bw_data"} THEN bw.offset ELSE pos)
    /\ file' = SubSeq(file, 1, pos')
    /\ UNCHANGED <<probe, start_pos, fid, block, bw, indexs, order, ix, wlog>>

\* a failed seek or write: map_err(..)? returns WriteTsmErr at once
BwIoFail ==
    /\ pc \in BwIoStages
    /\ ret' = WriteTsmErr
    /\ pc' = "failed"
    /\ UNCHANGED <<probe, file, pos, start_pos, fid, block, bw, indexs, order, ix, wlog>>

\* Ok(res); the caller files the list under the field id
BwReturn ==
    /\ pc = "bw_loop"
    /\ ~(bw.i < bw.n)
    /\ ret' = OkBlocks(bw.res)
    /\ indexs' = [f \in DOMAIN indexs \cup {fid} |->
                    IF f = fid THEN bw.res ELSE indexs[f]]
    /\ order' = Append(order, fid)
    /\ pc' = "idle"
    /\ UNCHANGED <<probe, file, pos, start_pos, fid, block, bw, ix, wlog>>

\* ------------------------------------------------ TsmIndexBuilder::build
\* let res = self.writer.pos();
IdxCall ==
    /\ pc = "idle"
    /\ DOMAIN indexs # {}
    /\ ix' = [res |-> pos, todo |-> DOMAIN indexs]
    /\ ret' = NoRet
    /\ pc' = "idx_loop"
    /\ UNCHANGED <<probe, file, pos, start_pos, fid, block, bw, indexs, order, wlog>>

\* one iteration of `for (fid, blks) in indexs`, in the map's own order
IdxGroup ==
    /\ pc = "idx_loop"
    /\ \E f \in ix.todo :
        \E buf \in {IndexRecord(f, indexs[f])} :
            /\ file' = CursorWrite(file, pos, buf)
            /\ pos' = pos + Len(buf)
            /\ wlog' = Append(wlog, LogEntry("write", "index", pos, pos', f, 0))
            /\ ix' = [ix EXCEPT !.todo = @ \ {f}]
    /\ pc' = "idx_loop"
    /\ UNCHANGED <<probe, start_pos, fid, block, bw, indexs, order, ret>>

\* the write of a group fails: map_err(..)? returns WriteTsmErr at once
IdxGroupFail ==
    /\ pc = "idx_loop"
    /\ ix.todo # {}
    /\ ret' = WriteTsmErr
    /\ pc' = "failed"
    /\ UNCHANGED <<probe, file, pos, start_pos, fid, block, bw, indexs, order, ix, wlog>>

\* Ok(res)
IdxReturn ==
    /\ pc = "idx_loop"
    /\ ix.todo = {}
    /\ ret' = OkOffset(ix.res)
    /\ pc' = "footer"
    /\ UNCHANGED <<probe, file, pos, start_pos, fid, block, bw, indexs, order, ix, wlog>>

\* --------------------------------------------------- FooterBuilder::build
\* called with the offset the index build returned
FooterBuild ==
    /\ pc = "footer"
    /\ LET buf == FooterBytes(ret.offset)
       IN  /\ file' = CursorWrite(file, pos, buf)
           /\ pos' = pos + Len(buf)
    /\ wlog' = Append(wlog, LogEntry("write", "footer", pos, pos', 0, 0))
    /\ ret' = OkUnit
    /\ pc' = "done"
    /\ UNCHANGED <<probe, start_pos, fid, block, bw, indexs, order, ix>>

FooterFail ==
    /\ pc = "footer"
    /\ ret' = WriteTsmErr
    /\ pc' = "failed"
    /\ UNCHANGED <<probe, file, pos, start_pos, fid, block, bw, indexs, order, ix, wlog>>

Next ==
    \/ BwCall \/ BwIter \/ BwSeek \/ BwHeader \/ BwCrcTs \/ BwTs
    \/ BwCrcData \/ BwData \/ BwIoFail \/ BwReturn
    \/ IdxCall \/ IdxGroup \/ IdxGroupFail \/ IdxReturn
    \/ FooterBuild \/ FooterFail

Spec == Init /\ [][Next]_vars

\* ------------------------------- one index record on a group of any length
\* TsmIndexBuilder::build accepts any HashMap<u64, Vec<FileBlock>>.  The
\* buffer of one iteration (lines 79-93) is built here for a group drawn
\* directly, as long as a u16 can count and longer; of the buffer the state
\* keeps the 11 leading bytes and the length.
MaxProbeLen == 40

SynthBlocks(ft, m) ==
    [j \in 1..m |-> FileBlock(j - 1, j - 1, HEADER_LEN + 10 * (j - 1), ft, 2)]

InitRecord ==
    /\ \E f \in Fids, ft \in FieldTypes, m \in (1..MaxProbeLen) \cup {U16_MOD} :
        /\ m = U16_MOD => (f = 1 /\ ft = 1)
        /\ probe = [NoProbe EXCEPT !.fid = f, !.filed_type = ft, !.len = m]
    /\ start_pos = 0
    /\ pos = 0
    /\ file = <<>>
    /\ pc = "idle"
    /\ fid = 0
    /\ block = NoBlock
    /\ bw = BwInit
    /\ indexs = EmptyMap
    /\ order = <<>>
    /\ ix = IxInit
    /\ ret = NoRet
    /\ wlog = <<>>

IdxRecordBuild ==
    /\ ~probe.done
    /\ \E buf \in {IndexRecord(probe.fid, SynthBlocks(probe.filed_type, probe.len))} :
        probe' = [probe EXCEPT !.head = SubSeq(buf, 1, 11),
                               !.buf_len = Len(buf), !.done = TRUE]
    /\ UNCHANGED <<file, pos, start_pos, pc, fid, block, bw, indexs, order, ix, ret, wlog>>

NextRecord == IdxRecordBuild

SpecRecord == InitRecord /\ [][NextRecord]_vars

\* ================================================================ claims

\* ---------------------------------------------------------------- helpers
RECURSIVE DoneBlocks(_)
DoneBlocks(k) == IF k = 0 THEN <<>> ELSE DoneBlocks(k - 1) \o indexs[order[k]]

\* every File Block descriptor produced so far, in the order of writing
AllBlocks ==
    DoneBlocks(Len(order))
        \o (IF fid = 0 \/ fid \in DOMAIN indexs THEN <<>> ELSE bw.res)

IsCrcTs(e) == e.what = "crc_ts"
IsTs(e) == e.what = "ts"
IsData(e) == e.what = "data"
Written(e) == e.to - e.at

HeaderWrites == {k \in 1..Len(wlog) : wlog[k].op = "write" /\ wlog[k].what = "header"}
Seeks == {k \in 1..Len(wlog) : wlog[k].op = "seek"}
Writes == {k \in 1..Len(wlog) : wlog[k].op = "write"}
IndexWrites == {k \in 1..Len(wlog) : wlog[k].what = "index"}

\* the bytes of the file in [from, to), offsets counted from 0
Bytes(from, to) == SubSeq(file, from + 1, to)

RECURSIVE SumLen(_, _)
SumLen(r, k) == IF k = 0 THEN 0 ELSE SumLen(r, k - 1) + (r[k][2] - r[k][1])

\* the timestamp bytes and the value bytes of the sub-blocks of r, read
\* back from the file in order of the descriptors
RECURSIVE StoredTs(_, _)
StoredTs(r, k) ==
    IF k = 0 THEN <<>>
    ELSE LET n == bw.ranges[k][2] - bw.ranges[k][1]
         IN  StoredTs(r, k - 1) \o Bytes(r[k].offset + 4, r[k].offset + 4 + n)

RECURSIVE StoredVal(_, _)
StoredVal(r, k) ==
    IF k = 0 THEN <<>>
    ELSE LET n == bw.ranges[k][2] - bw.ranges[k][1]
         IN  StoredVal(r, k - 1) \o Bytes(r[k].offset + 8 + n, r[k].offset + 8 + 2 * n)

\* C1: when build returns its File Blocks, the sub-ranges it passed to
\* time_range/encode start at 0, each starts where the previous one ended,
\* the last ends at len and their lengths sum to len, and the file holds
\* every (timestamp, value) pair of the block once and in order.
C1_RangesPartitionBlock ==
    ret.kind = "Blocks" =>
        LET r == bw.ranges
            len == block_len(block)
        IN  /\ Len(r) >= 1
            /\ r[1][1] = 0
            /\ \A j \in 1..(Len(r) - 1) : r[j + 1][1] = r[j][2]
            /\ r[Len(r)][2] = len
            /\ SumLen(r, Len(r)) = len
            /\ StoredTs(ret.blocks, Len(ret.blocks)) = block.ts
            /\ StoredVal(ret.blocks, Len(ret.blocks)) = block.val

\* C2: every sub-range handed to encode holds at most MAX_BLOCK_VALUES
\* values, and a build that returns gives ((len - 1) / MAX) + 1 File
\* Blocks: one for len = MAX, two for len = MAX + 1.
C2_BlockCountAndBound ==
    /\ \A j \in 1..Len(bw.ranges) :
            bw.ranges[j][2] - bw.ranges[j][1] <= MAX_BLOCK_VALUES
    /\ ret.kind = "Blocks" =>
        LET len == block_len(block)
        IN  /\ Len(ret.blocks) = ((len - 1) \div MAX_BLOCK_VALUES) + 1
            /\ len = MAX_BLOCK_VALUES => Len(ret.blocks) = 1
            /\ len = MAX_BLOCK_VALUES + 1 => Len(ret.blocks) = 2

C2_Witness ==
    /\ ret.kind = "Blocks"
    /\ block_len(block) = MAX_BLOCK_VALUES + 1
    /\ Len(ret.blocks) = 2
    /\ bw.ranges = <<<<0, 1>>, <<1, MAX_BLOCK_VALUES + 1>>>>

\* C3: in a fresh file the header is written at most once, at offset 0, by
\* the first sub-block of the first Data Block and before the cursor was
\* ever past byte 5; once a Data Block is written the file starts with the
\* one 5-byte header, however many Data Blocks follow.
C3_HeaderOnce ==
    start_pos = 0 =>
        /\ \A k \in HeaderWrites :
            /\ wlog[k].at = 0 /\ wlog[k].to = HEADER_LEN
            /\ wlog[k].i = 0
            /\ wlog[k].fld = (IF order = <<>> THEN fid ELSE order[1])
            /\ \A j \in 1..(k - 1) : wlog[j].at <= HEADER_LEN /\ wlog[j].to <= HEADER_LEN
        /\ Cardinality(HeaderWrites) <= 1
        /\ order # <<>> =>
            /\ Cardinality(HeaderWrites) = 1
            /\ Bytes(0, HEADER_LEN) = HeaderBytes

C3_Witness ==
    /\ start_pos = 0
    /\ pc = "done"
    /\ Len(order) >= 2
    /\ Len(AllBlocks) >= 3
    /\ Cardinality(HeaderWrites) = 1
    /\ Bytes(0, HEADER_LEN) = <<1, 52, 102, 19, 1>>

\* the 8 bytes b, read as a big-endian integer, give v (v < 2^24)
ReadsAs(b, v) ==
    /\ Len(b) = 8
    /\ \A k \in 1..5 : b[k] = 0
    /\ FromBeBytes(SubSeq(b, 6, 8)) = v

IsIndex(e) == e.what = "index"

StoredTyp(k) == file[wlog[k].at + 9]

\* C5: in every index record written, the 1-byte value-type tag is the tag
\* of the first File Block descriptor of that field's group.
C5_IndexTagIsFirstDescriptorTag ==
    \A k \in IndexWrites : StoredTyp(k) = indexs[wlog[k].fld][1].filed_type

C7_DescriptorLocatesBlock ==
    LET crcs == SelectSeq(wlog, IsCrcTs)
        tss == SelectSeq(wlog, IsTs)
        datas == SelectSeq(wlog, IsData)
        all == AllBlocks
    IN  /\ Len(all) = Len(datas)
        /\ \A j \in 1..Len(all) :
            /\ all[j].offset = crcs[j].at
            /\ crcs[j].op = "write" /\ Written(crcs[j]) = 4
            /\ all[j].offset >= HEADER_LEN
            /\ all[j].size = Written(tss[j]) + Written(datas[j])
            /\ all[j].reader_idx = 0
            /\ j + 1 <= Len(crcs) => crcs[j + 1].at = all[j].offset + all[j].size + 8

C7_Witness ==
    /\ pc = "idle"
    /\ Len(AllBlocks) >= 3
    /\ AllBlocks[1].offset = HEADER_LEN
    /\ AllBlocks[2].size = 2 * MAX_BLOCK_VALUES
    /\ AllBlocks[3].offset = AllBlocks[2].offset + AllBlocks[2].size + 8

Extent(d) == d.offset .. (d.offset + d.size + 7)

IndexedBlocks == {<<f, j>> \in (DOMAIN indexs) \X (1..Len(AllBlocks)) : j <= Len(indexs[f])}

C9_AppendOnly ==
    /\ pos = (IF wlog = <<>> THEN start_pos ELSE wlog[Len(wlog)].to)
    /\ \A k \in 1..Len(wlog) :
        /\ wlog[k].at = (IF k = 1 THEN start_pos ELSE wlog[k - 1].to)
        /\ wlog[k].to >= wlog[k].at \/ (wlog[k].op = "seek" /\ wlog[k].to = 0)
    /\ Cardinality(Seeks) <= 1
    /\ \A k \in Seeks :
        k < Len(wlog) => (wlog[k + 1].op = "write" /\ wlog[k + 1].what = "header")
    /\ \A j, k \in Writes : j < k => wlog[j].to <= wlog[k].at

C9_Witness ==
    /\ pc = "done"
    /\ start_pos = HEADER_LEN - 2
    /\ Cardinality(Seeks) = 1
    /\ wlog[1].op = "seek" /\ wlog[1].at = HEADER_LEN - 2 /\ wlog[1].to = 0
    /\ Cardinality(Writes) >= 10

\* C10: for a field group of any length, the 2-byte block count of its
\* index record equals the number of 32-byte sub-records that follow it.
C10_CountEqualsSubRecords ==
    probe.done =>
        FromBeBytes(SubSeq(probe.head, 10, 11)) = (probe.buf_len - 11) \div 32
====
